---------------------------- MODULE Spec2Model ----------------------------
(***************************************************************************)
(* Model of task_package/zad.py: the truncated series S = sum cos(n*x)/n,  *)
(* summed by one loop (calculate_series_sum_single_threaded), by one       *)
(* thread per chunk (calculate_series_sum_multi_threaded) and by a thread  *)
(* pool (calculate_with_threadpool).                                       *)
(*                                                                         *)
(* Numbers.  x is a multiple m of pi/6 with m divisible by 2 or by 3, so   *)
(* that cos(n*x) is one of 0, +-1/2, +-1 and is held exactly as the        *)
(* integer Cos2 = 2*cos(n*x); or x is infinite, where math.cos raises.     *)
(* epsilon is the positive rational num/den.  A floating-point sum depends *)
(* on the order of its additions, so a sum is held symbolically, as the    *)
(* sequence of the term indices added, in the order they were added; 0.0   *)
(* is the empty sequence.                                                  *)
(***************************************************************************)
EXTENDS Integers, Sequences, FiniteSets, TLC

\* ------------------------------------------------------------- bounds
MaxX == 6
MaxP == 2
MaxQ == 5
BigQ == 102
MaxThreads == 3
MaxNeg == 1
MaxThreadsFn == 103
MaxStartN == 6
MaxEndN == 7
MaxIter == 200

\* ------------------------------------------------- program constants
Pad == 100

\* ------------------------------------------------------------- inputs
XFinite == {[inf |-> FALSE, m |-> m] : m \in {k \in 0..MaxX : k % 2 = 0 \/ k % 3 = 0}}
XInf == [inf |-> TRUE, m |-> 0]
XSet == XFinite \cup {XInf}

EpsSet ==
  {[num |-> p, den |-> q] : p \in 1..MaxP, q \in 1..MaxQ} \cup {[num |-> 1, den |-> BigQ]}

\* ------------------------------------------------------ arithmetic
Abs(v) == IF v < 0 THEN -v ELSE v

\* math.ceil(a / b) for integers a >= 0, b > 0
Ceil(a, b) == (a + b - 1) \div b

\* Python's a // b (floor division) for a >= 0 and b # 0
PyFloorDiv(a, b) == IF b > 0 THEN a \div b ELSE -Ceil(a, -b)

\* 2 * cos(k * pi / 6) for the k at which it is an integer
Cos2Table(k) ==
  CASE k = 0 -> 2
    [] k = 2 -> 1
    [] k = 3 -> 0
    [] k = 4 -> -1
    [] k = 6 -> -2
    [] k = 8 -> -1
    [] k = 9 -> 0
    [] k = 10 -> 1

\* 2 * math.cos(n * x)
Cos2(x, n) == Cos2Table((n * x.m) % 12)

\* term = math.cos(n * x) / n raises: ValueError for an infinite argument,
\* ZeroDivisionError for n = 0
TermFaults(x, n) == x.inf \/ n = 0

\* abs(term) < epsilon, with term = Cos2 / (2 n) and epsilon = num / den
Below(x, n, epsilon) == Abs(Cos2(x, n)) * epsilon.den < 2 * n * epsilon.num

\* max_n = int(math.ceil(1 / epsilon)) + 100
MaxN(epsilon) == Ceil(epsilon.den, epsilon.num) + Pad

\* chunk_size = max_n // num_threads
ChunkSize(max_n, num_threads) == PyFloorDiv(max_n, num_threads)

\* start_n = i * chunk_size + 1
ChunkStartOverlap(i, chunk_size) == i * chunk_size
ChunkStart(i, chunk_size) == i * chunk_size + 1

\* end_n = (i + 1) * chunk_size if i < num_threads - 1 else max_n
ChunkEndNoRemainder(i, chunk_size, num_threads, max_n) == (i + 1) * chunk_size
ChunkEnd(i, chunk_size, num_threads, max_n) ==
  IF i < num_threads - 1 THEN (i + 1) * chunk_size ELSE max_n

\* ------------------------------------------------- the summing loops
\* The local state of a loop: pc is "loop" while the loop runs, "exit" once it
\* is left (by its condition or by break), "raised" when evaluating the term
\* raised.  last_eval is the largest index whose term was evaluated (0: none).

\* n += 1
NextNStuck(n) == n
NextN(n) == n + 1

\* one pass of the while loop of calculate_partial_sum and of the pool's worker
WorkerStepNoBound(x, epsilon, w) ==
  IF TermFaults(x, w.n) THEN [w EXCEPT !.pc = "raised"]
  ELSE IF Below(x, w.n, epsilon) THEN [w EXCEPT !.pc = "exit", !.last_eval = w.n]
  ELSE [w EXCEPT !.partial_sum = Append(@, w.n), !.n = NextN(@), !.last_eval = w.n]
WorkerStep(x, epsilon, w) ==
  IF ~(w.n <= w.end_n) THEN [w EXCEPT !.pc = "exit"]
  ELSE IF TermFaults(x, w.n) THEN [w EXCEPT !.pc = "raised"]
  ELSE IF Below(x, w.n, epsilon) THEN [w EXCEPT !.pc = "exit", !.last_eval = w.n]
  ELSE [w EXCEPT !.partial_sum = Append(@, w.n), !.n = NextN(@), !.last_eval = w.n]

\* partial_sum = 0.0; n = start_n
WorkerInit(idx, start_n, end_n) ==
  [pc |-> "loop", idx |-> idx, start_n |-> start_n, end_n |-> end_n,
   n |-> start_n, partial_sum |-> <<>>, last_eval |-> 0]

RECURSIVE RunWorker(_, _, _)
RunWorker(x, epsilon, w) ==
  IF w.pc # "loop" THEN w ELSE RunWorker(x, epsilon, WorkerStep(x, epsilon, w))

\* one pass of the while True loop of calculate_series_sum_single_threaded
SingleStepAddFirst(x, epsilon, s) ==
  IF TermFaults(x, s.n) THEN [s EXCEPT !.pc = "raised"]
  ELSE IF Below(x, s.n, epsilon)
    THEN [s EXCEPT !.pc = "exit", !.total_sum = Append(@, s.n)]
  ELSE [s EXCEPT !.total_sum = Append(@, s.n), !.n = NextN(@)]
SingleStep(x, epsilon, s) ==
  IF TermFaults(x, s.n) THEN [s EXCEPT !.pc = "raised"]
  ELSE IF Below(x, s.n, epsilon) THEN [s EXCEPT !.pc = "exit"]
  ELSE [s EXCEPT !.total_sum = Append(@, s.n), !.n = NextN(@)]

\* total_sum = 0.0; n = 1
SingleInit == [pc |-> "loop", n |-> 1, total_sum |-> <<>>]

RECURSIVE RunSingle(_, _, _)
RunSingle(x, epsilon, s) ==
  IF s.pc # "loop" \/ Len(s.total_sum) >= MaxIter THEN s
  ELSE RunSingle(x, epsilon, SingleStep(x, epsilon, s))

\* sum(...) of the slots 0 .. n-1 of f, in slot order
RECURSIVE SumSlots(_, _, _)
SumSlots(f, k, n) == IF k >= n THEN <<>> ELSE f[k] \o SumSlots(f, k + 1, n)

\* ------------------------------------------------------------- state
VARIABLES
  variant,      \* which function is running: "threads", "pool", or the driver
  x,            \* argument x
  epsilon,      \* argument epsilon
  num_threads,  \* argument num_threads
  mpc,          \* position of the calling thread in the parallel summer
  max_n,        \* local max_n
  chunk_size,   \* local chunk_size
  i,            \* index of the for loop the calling thread is in
  results,      \* the shared list results (threads variant)
  workers,      \* the threads / futures created so far, by index
  total_sum,    \* local total_sum; the value returned once mpc = "returned"
  writes,       \* history: every store into results, [by, slot, value]
  stale_reads,  \* history: slots read by the caller that no worker had written
  fpc,          \* position of the sequential driver
  part,         \* outcome of the driver's call of calculate_partial_sum
  single,       \* the loop of calculate_series_sum_single_threaded / its outcome
  multi,        \* outcome of the driver's call of calculate_series_sum_multi_threaded
  pool          \* outcome of the driver's call of calculate_with_threadpool

vars ==
  <<variant, x, epsilon, num_threads, mpc, max_n, chunk_size, i, results, workers,
    total_sum, writes, stale_reads, fpc, part, single, multi, pool>>

parVars ==
  <<mpc, max_n, chunk_size, i, results, workers, total_sum, writes, stale_reads>>
inVars == <<variant, x, epsilon, num_threads>>
drvVars == <<fpc, part, single, multi, pool>>

None == [outcome |-> "none"]

ParLocals ==
  /\ max_n = 0
  /\ chunk_size = 0
  /\ i = 0
  /\ results = <<>>
  /\ workers = <<>>
  /\ total_sum = <<>>
  /\ writes = <<>>
  /\ stale_reads = {}

DrvIdle ==
  /\ fpc = "idle"
  /\ part = None
  /\ single = None
  /\ multi = None
  /\ pool = None

Terminal(w) == w.pc \in {"done", "raised"}

\* ------------------------------- the parallel summers, thread by thread
Init ==
  /\ variant \in {"threads", "pool"}
  /\ x \in XSet
  /\ epsilon \in EpsSet
  /\ num_threads \in (-MaxNeg)..MaxThreads
  /\ mpc = "begin"
  /\ ParLocals
  /\ DrvIdle

\* zad.py 92-97: max_n, chunk_size (ZeroDivisionError for num_threads = 0),
\* results = [0.0] * num_threads (the empty list for num_threads < 0)
MTBegin ==
  /\ variant = "threads" /\ mpc = "begin"
  /\ max_n' = MaxN(epsilon)
  /\ IF num_threads = 0
       THEN /\ mpc' = "raised"
            /\ UNCHANGED <<chunk_size, results>>
       ELSE /\ chunk_size' = ChunkSize(max_n', num_threads)
            /\ results' = [k \in 0..(num_threads - 1) |-> <<>>]
            /\ mpc' = "spawn"
  /\ UNCHANGED <<i, workers, total_sum, writes, stale_reads, inVars, drvVars>>

\* zad.py 100-108 and 151-154: one pass of the for loop, which starts thread i /
\* submits task i over its chunk
StartWorker ==
  /\ i < num_threads
  /\ workers' =
       [k \in 0..i |->
          IF k = i
            THEN WorkerInit(i, ChunkStart(i, chunk_size),
                            ChunkEnd(i, chunk_size, num_threads, max_n))
            ELSE workers[k]]
  /\ i' = i + 1
  /\ UNCHANGED <<mpc, max_n, chunk_size, results, total_sum, writes, stale_reads,
                 inVars, drvVars>>

\* a for loop ends: on to the statement after it
LoopDone(len, next) ==
  /\ ~(i < len)
  /\ mpc' = next
  /\ i' = 0
  /\ UNCHANGED <<max_n, chunk_size, results, workers, total_sum, writes, stale_reads,
                 inVars, drvVars>>

NumWorkers == Cardinality(DOMAIN workers)

MTSpawn == variant = "threads" /\ mpc = "spawn" /\ StartWorker

MTSpawnDone == variant = "threads" /\ mpc = "spawn" /\ LoopDone(num_threads, "join")

\* zad.py 111-112: thread.join() returns once thread i has ended, however it ended
JoinReady(w) == Terminal(w)

MTJoin ==
  /\ variant = "threads" /\ mpc = "join"
  /\ i < NumWorkers
  /\ JoinReady(workers[i])
  /\ i' = i + 1
  /\ UNCHANGED <<mpc, max_n, chunk_size, results, workers, total_sum, writes,
                 stale_reads, inVars, drvVars>>

MTJoinDone == variant = "threads" /\ mpc = "join" /\ LoopDone(NumWorkers, "sum")

\* the slots of results that worker k has stored into so far
SlotsWrittenBy(k) == {writes[j].slot : j \in {j \in 1..Len(writes) : writes[j].by = k}}

\* zad.py 115-116: total_sum = sum(results); return total_sum
MTSum ==
  /\ variant = "threads" /\ mpc = "sum"
  /\ total_sum' = SumSlots(results, 0, Cardinality(DOMAIN results))
  /\ stale_reads' = {k \in DOMAIN results : k \notin SlotsWrittenBy(k)}
  /\ mpc' = "returned"
  /\ UNCHANGED <<max_n, chunk_size, i, results, workers, writes, inVars, drvVars>>

\* zad.py 37-45 and 139-144: worker k runs one pass of its while loop
WLoop(k) ==
  /\ workers[k].pc = "loop"
  /\ workers' = [workers EXCEPT ![k] = WorkerStep(x, epsilon, @)]
  /\ UNCHANGED <<mpc, max_n, chunk_size, i, results, total_sum, writes, stale_reads,
                 inVars, drvVars>>

\* results_list[idx] = partial_sum: the slot stored into
WriteSlotZero(idx) == 0
WriteSlot(idx) == idx

\* zad.py 47-48: results_list[idx] = partial_sum; return partial_sum
WStore(k) ==
  /\ variant = "threads"
  /\ workers[k].pc = "exit"
  /\ results' = [results EXCEPT ![WriteSlot(workers[k].idx)] = workers[k].partial_sum]
  /\ writes' = Append(writes, [by |-> k, slot |-> WriteSlot(workers[k].idx),
                               value |-> workers[k].partial_sum])
  /\ workers' = [workers EXCEPT ![k].pc = "done"]
  /\ UNCHANGED <<mpc, max_n, chunk_size, i, total_sum, stale_reads, inVars, drvVars>>

\* zad.py 146: return partial_sum, which becomes the future's result
WReturn(k) ==
  /\ variant = "pool"
  /\ workers[k].pc = "exit"
  /\ workers' = [workers EXCEPT ![k].pc = "done"]
  /\ UNCHANGED <<mpc, max_n, chunk_size, i, results, total_sum, writes, stale_reads,
                 inVars, drvVars>>

\* zad.py 131-132, 148: max_n, chunk_size (ZeroDivisionError for num_threads = 0),
\* then ThreadPoolExecutor(max_workers=num_threads), which raises ValueError for
\* max_workers <= 0
MPBegin ==
  /\ variant = "pool" /\ mpc = "begin"
  /\ max_n' = MaxN(epsilon)
  /\ IF num_threads = 0
       THEN mpc' = "raised" /\ UNCHANGED chunk_size
       ELSE /\ chunk_size' = ChunkSize(max_n', num_threads)
            /\ mpc' = IF num_threads < 0 THEN "raised" ELSE "submit"
  /\ UNCHANGED <<i, results, workers, total_sum, writes, stale_reads, inVars, drvVars>>

MPSubmit == variant = "pool" /\ mpc = "submit" /\ StartWorker

MPSubmitDone == variant = "pool" /\ mpc = "submit" /\ LoopDone(num_threads, "collect")

\* zad.py 157: future.result() of future i, added to the running sum; it blocks
\* until the task has ended and re-raises what the task raised
MPCollect ==
  /\ variant = "pool" /\ mpc = "collect"
  /\ i < NumWorkers
  /\ Terminal(workers[i])
  /\ IF workers[i].pc = "raised"
       THEN mpc' = "unwinding" /\ UNCHANGED <<i, total_sum>>
       ELSE /\ total_sum' = total_sum \o workers[i].partial_sum
            /\ i' = i + 1
            /\ mpc' = mpc
  /\ UNCHANGED <<max_n, chunk_size, results, workers, writes, stale_reads, inVars,
                 drvVars>>

MPCollectDone == variant = "pool" /\ mpc = "collect" /\ LoopDone(NumWorkers, "exiting")

\* zad.py 148, 159: leaving the with block is executor.shutdown(wait=True), which
\* waits for every submitted task; then return total_sum, or the exception goes on
MPShutdown ==
  /\ variant = "pool" /\ mpc \in {"exiting", "unwinding"}
  /\ \A k \in DOMAIN workers : Terminal(workers[k])
  /\ mpc' = IF mpc = "exiting" THEN "returned" ELSE "raised"
  /\ UNCHANGED <<max_n, chunk_size, i, results, workers, total_sum, writes,
                 stale_reads, inVars, drvVars>>

Next ==
  \/ MTBegin
  \/ MTSpawn
  \/ MTSpawnDone
  \/ MTJoin
  \/ MTJoinDone
  \/ MTSum
  \/ MPBegin
  \/ MPSubmit
  \/ MPSubmitDone
  \/ MPCollect
  \/ MPCollectDone
  \/ MPShutdown
  \/ \E k \in DOMAIN workers : WLoop(k)
  \/ \E k \in DOMAIN workers : WStore(k)
  \/ \E k \in DOMAIN workers : WReturn(k)

Spec == Init /\ [][Next]_vars

\* ---------------------- calculate_series_sum_single_threaded, pass by pass
InitSingle ==
  /\ variant = "single"
  /\ x \in XSet
  /\ epsilon \in EpsSet
  /\ num_threads = 1
  /\ mpc = "idle"
  /\ ParLocals
  /\ fpc = "single"
  /\ part = None
  /\ single = SingleInit
  /\ multi = None
  /\ pool = None

\* zad.py 65-72: one pass of the while True loop
SingleIter ==
  /\ fpc = "single"
  /\ single.pc = "loop"
  /\ Len(single.total_sum) < MaxIter
  /\ single' = SingleStep(x, epsilon, single)
  /\ UNCHANGED <<fpc, part, multi, pool, inVars, parVars>>

\* zad.py 74: return total_sum, n
SingleReturn ==
  /\ fpc = "single"
  /\ single.pc = "exit"
  /\ single' = [single EXCEPT !.pc = "returned"]
  /\ UNCHANGED <<fpc, part, multi, pool, inVars, parVars>>

NextSingle == SingleIter \/ SingleReturn

SpecSingle == InitSingle /\ [][NextSingle]_vars /\ WF_vars(NextSingle)

\* ------------------------------------------- the functions, call by call
\* calculate_series_sum_single_threaded(x, epsilon): the loop run to its end
SingleThreaded(x0, eps) ==
  LET s == RunSingle(x0, eps, SingleInit)
  IN  IF s.pc = "exit" THEN [s EXCEPT !.pc = "returned"] ELSE s

\* calculate_partial_sum(x, start_n, end_n, epsilon, results_list, idx): the loop
\* run to its end, then the store into results_list
PartialSum(x0, start_n, end_n, eps, results_list, idx) ==
  LET w == RunWorker(x0, eps, WorkerInit(idx, start_n, end_n))
  IN  IF w.pc = "raised"
        THEN [outcome |-> "raised", results_list |-> results_list, worker |-> w]
        ELSE [outcome |-> "returned", value |-> w.partial_sum,
              results_list |-> [results_list EXCEPT ![WriteSlot(idx)] = w.partial_sum],
              worker |-> w]

\* the chunks (start_n, end_n) of the for loops at zad.py 100-102 and 151-153
Chunks(eps, nt) ==
  LET size == ChunkSize(MaxN(eps), nt)
  IN  [k \in 0..(nt - 1) |->
         <<ChunkStart(k, size), ChunkEnd(k, size, nt, MaxN(eps))>>]

\* the workers of a parallel call, each run to its end
ChunkWorkers(x0, eps, nt) ==
  LET chunks == Chunks(eps, nt)
  IN  [k \in 0..(nt - 1) |->
         RunWorker(x0, eps, WorkerInit(k, chunks[k][1], chunks[k][2]))]

\* calculate_series_sum_multi_threaded(x, epsilon, num_threads): a thread that
\* raised leaves its slot of results at 0.0
MultiThreaded(x0, eps, nt) ==
  IF nt = 0 THEN [outcome |-> "raised"]
  ELSE LET ws == ChunkWorkers(x0, eps, nt)
           res == [k \in 0..(nt - 1) |->
                     IF ws[k].pc = "raised" THEN <<>> ELSE ws[k].partial_sum]
       IN  [outcome |-> "returned", value |-> SumSlots(res, 0, nt),
            chunks |-> Chunks(eps, nt), workers |-> ws]

\* calculate_with_threadpool(x, epsilon, num_threads): future.result() re-raises
ThreadPool(x0, eps, nt) ==
  IF nt <= 0 THEN [outcome |-> "raised"]
  ELSE LET ws == ChunkWorkers(x0, eps, nt)
           res == [k \in 0..(nt - 1) |-> ws[k].partial_sum]
       IN  IF \E k \in 0..(nt - 1) : ws[k].pc = "raised"
             THEN [outcome |-> "raised", chunks |-> Chunks(eps, nt), workers |-> ws]
             ELSE [outcome |-> "returned", value |-> SumSlots(res, 0, nt),
                   chunks |-> Chunks(eps, nt), workers |-> ws]

InitFn ==
  /\ variant = "driver"
  /\ x \in XSet
  /\ epsilon \in EpsSet
  /\ num_threads = 1
  /\ mpc = "idle"
  /\ ParLocals
  /\ fpc = "start"
  /\ part = None
  /\ single = None
  /\ multi = None
  /\ pool = None

\* test_zad.py 38-41: calculate_partial_sum over a range, with a two-slot list
CallPartialSum ==
  /\ fpc = "start"
  /\ \E start_n \in 0..MaxStartN, end_n \in 0..MaxEndN, idx \in 0..1 :
       part' = PartialSum(x, start_n, end_n, epsilon, [k \in 0..1 |-> <<>>], idx)
  /\ fpc' = "partial_done"
  /\ UNCHANGED <<single, multi, pool, inVars, parVars>>

\* test_zad.py 115: single_result, _ = calculate_series_sum_single_threaded(x, epsilon)
CallSingle ==
  /\ fpc = "start"
  /\ single' = SingleThreaded(x, epsilon)
  /\ fpc' = "single_done"
  /\ UNCHANGED <<part, multi, pool, inVars, parVars>>

\* test_zad.py 116: multi_result = calculate_series_sum_multi_threaded(x, epsilon, n)
CallMulti ==
  /\ fpc = "single_done"
  /\ \E nt \in 1..MaxThreadsFn :
       /\ num_threads' = nt
       /\ multi' = MultiThreaded(x, epsilon, nt)
  /\ fpc' = "multi_done"
  /\ UNCHANGED <<part, single, pool, variant, x, epsilon, parVars>>

\* test_zad.py 117: pool_result = calculate_with_threadpool(x, epsilon, n)
CallPool ==
  /\ fpc = "multi_done"
  /\ pool' = ThreadPool(x, epsilon, num_threads)
  /\ fpc' = "pool_done"
  /\ UNCHANGED <<part, single, multi, inVars, parVars>>

NextFn == CallPartialSum \/ CallSingle \/ CallMulti \/ CallPool

SpecFn == InitFn /\ [][NextFn]_vars

\* ------------------------------------------------------------ claims
Indices(s) == {s[j] : j \in 1..Len(s)}
NoRepeat(s) == Cardinality(Indices(s)) = Len(s)
Run(a, b) == [j \in 1..(b - a + 1) |-> a + j - 1]
ChunkRange(c) == c[1]..c[2]

\* a plan of nt chunks over [1, MaxN(epsilon)]: contiguous, disjoint, covering
PlanCovers(chunks, nt) ==
  /\ DOMAIN chunks = 0..(nt - 1)
  /\ chunks[0][1] = 1
  /\ chunks[nt - 1][2] = MaxN(epsilon)
  /\ \A k \in 0..(nt - 2) : chunks[k + 1][1] = chunks[k][2] + 1
  /\ \A j, k \in 0..(nt - 1) : j # k => ChunkRange(chunks[j]) \cap ChunkRange(chunks[k]) = {}
  /\ UNION {ChunkRange(chunks[k]) : k \in 0..(nt - 1)} = 1..MaxN(epsilon)

\* C1: for every epsilon > 0 and num_threads >= 1 (also num_threads > max_n, where
\* chunk_size is 0) the chunks handed to the workers by both parallel summers are
\* contiguous, pairwise disjoint, and their union is exactly [1, max_n].
C1_ChunksPartition ==
  /\ fpc \in {"multi_done", "pool_done"} => PlanCovers(multi.chunks, num_threads)
  /\ fpc = "pool_done" => PlanCovers(pool.chunks, num_threads)

C1_Witness ==
  /\ fpc = "pool_done"
  /\ num_threads > MaxN(epsilon)
  /\ ChunkSize(MaxN(epsilon), num_threads) = 0
  /\ pool.chunks[0] = <<1, 0>>

\* C2: for every x, epsilon > 0 and num_threads >= 1 the two parallel summers add
\* exactly the set of term indices that the single-threaded summer adds.
C2_SameIndices ==
  (fpc = "pool_done" /\ single.pc = "returned" /\ pool.outcome = "returned")
    => /\ Indices(multi.value) = Indices(single.total_sum)
       /\ Indices(pool.value) = Indices(single.total_sum)

\* C3: if a worker faults, the parallel call fails: it never returns a value.
C3_FaultFailsCall ==
  mpc = "returned" => \A k \in DOMAIN workers : workers[k].pc # "raised"

\* C4: for num_threads <= 0 both parallel summers fail fast: no worker is started
\* and nothing is returned.
C4_NonPositiveThreadsFail ==
  num_threads <= 0 => (mpc # "returned" /\ workers = <<>>)

\* C5: for num_threads >= 1 a parallel call returns only after exactly num_threads
\* workers were started and all have finished, and what it returns is the sum of
\* their partial results, each read only after its worker has produced it.
C5_ForkJoin ==
  (mpc = "returned" /\ num_threads >= 1)
    => /\ NumWorkers = num_threads
       /\ \A k \in DOMAIN workers : Terminal(workers[k])
       /\ total_sum = SumSlots([k \in DOMAIN workers |-> workers[k].partial_sum],
                               0, num_threads)
       /\ stale_reads = {}
       /\ \A k \in DOMAIN workers : workers[k].pc = "done"

\* C6: in the threads variant worker i stores only into results[i], once, the
\* value it returns; no two workers store into the same slot; and the value the
\* call returns is a function of (x, epsilon, num_threads) alone, whatever the
\* interleaving.
C6_DisjointSlots ==
  /\ \A j \in 1..Len(writes) :
       /\ writes[j].slot = writes[j].by
       /\ writes[j].value = workers[writes[j].by].partial_sum
       /\ workers[writes[j].by].pc = "done"
  /\ \A j, k \in 1..Len(writes) :
       j # k => (writes[j].slot # writes[k].slot /\ writes[j].by # writes[k].by)
  /\ \A k \in DOMAIN workers :
       (variant = "threads" /\ workers[k].pc = "done")
         => /\ Cardinality({j \in 1..Len(writes) : writes[j].by = k}) = 1
            /\ results[k] = workers[k].partial_sum
  /\ (variant = "threads" /\ mpc = "returned")
       => total_sum = MultiThreaded(x, epsilon, num_threads).value

C6_Witness ==
  /\ variant = "threads" /\ mpc = "returned"
  /\ num_threads >= 2
  /\ Len(writes) = num_threads
  /\ results[0] # <<>>
  /\ results[1] # <<>>

C8_SingleTerminates == <>(single.pc \in {"returned", "raised"})

C8_Witness ==
  /\ variant = "single"
  /\ single.pc = "returned"
  /\ single.n = BigQ + 1
  /\ Len(single.total_sum) = BigQ

\* what C9 says of a worker w that has left its loop without raising
RangeSumOK(w) ==
  /\ w.partial_sum = Run(w.start_n, w.n - 1)
  /\ \A j \in w.start_n..(w.n - 1) : ~Below(x, j, epsilon)
  /\ w.last_eval <= w.end_n
  /\ IF w.start_n > w.end_n
       THEN w.partial_sum = <<>> /\ w.last_eval = 0
       ELSE /\ w.n <= w.end_n + 1
            /\ w.n <= w.end_n => Below(x, w.n, epsilon)
            /\ Below(x, w.start_n, epsilon) => w.partial_sum = <<>>

\* C9: calculate_partial_sum and the pool's worker add exactly the terms of the
\* longest run start_n .. m-1, m <= end_n + 1, whose terms are all >= epsilon;
\* they evaluate no term past end_n, and return 0.0 when the term at start_n is
\* below epsilon or start_n > end_n.
C9_RangeSum ==
  /\ (fpc = "partial_done" /\ part.outcome = "returned")
       => (RangeSumOK(part.worker) /\ part.value = part.worker.partial_sum)
  /\ fpc = "pool_done"
       => \A k \in DOMAIN pool.workers :
            pool.workers[k].pc # "raised" => RangeSumOK(pool.workers[k])

C9_Witness ==
  /\ fpc = "partial_done" /\ part.outcome = "returned"
  /\ part.worker.start_n = 2
  /\ part.worker.end_n = 4
  /\ part.value = <<2, 3, 4>>
  /\ ~Below(x, 5, epsilon)

\* C10: the single-threaded summer stops at an index <= max_n, and every index it
\* adds is added by exactly one chunk of each parallel summer, none added twice.
C10_SingleWithinParallel ==
  (fpc = "pool_done" /\ single.pc = "returned")
    => /\ single.n <= MaxN(epsilon)
       /\ multi.outcome = "returned" /\ pool.outcome = "returned"
       /\ Indices(single.total_sum) \subseteq Indices(multi.value)
       /\ Indices(single.total_sum) \subseteq Indices(pool.value)
       /\ NoRepeat(multi.value) /\ NoRepeat(pool.value)
       /\ \A n \in Indices(single.total_sum) :
            /\ Cardinality({k \in DOMAIN multi.workers :
                              n \in Indices(multi.workers[k].partial_sum)}) = 1
            /\ Cardinality({k \in DOMAIN pool.workers :
                              n \in Indices(pool.workers[k].partial_sum)}) = 1

C10_Witness ==
  /\ fpc = "pool_done" /\ single.pc = "returned"
  /\ num_threads = 2
  /\ Len(single.total_sum) = BigQ
  /\ Len(multi.workers[0].partial_sum) = 101
  /\ multi.workers[1].partial_sum = <<BigQ>>

=============================================================================
